---------------------------- MODULE Spec2Model ----------------------------
(***************************************************************************)
(* arbfloat: decoding of IEEE-754 style bit patterns (FormatDesc, parse)   *)
(* into an arbitrary-precision value (ArbFloat), src/code/arbfloat/src/    *)
(* main.rs.                                                                *)
(*                                                                         *)
(* Machine words are modelled by what they hold:                           *)
(*   - IntStorage (u64) is a sequence of 64 bits, least significant first  *)
(*     (index i holds bit i-1);                                            *)
(*   - i32 is an integer in I32_MIN..I32_MAX;                              *)
(*   - BigInt is a sign in {-1, 0, 1} and a magnitude, a bit sequence      *)
(*     (least significant first) without leading zero bits.                *)
(* An arithmetic operation that can overflow yields R(v, ovf): v is the    *)
(* wrapped result a build without overflow checks computes, ovf tells      *)
(* that a build with overflow checks panics there.                         *)
(***************************************************************************)
EXTENDS Integers, Sequences, FiniteSets, TLC

VARIABLES
    build,      \* "debug": overflow checks on (panic); "release": off (wrap)
    op,         \* the entry point exercised: "mask", "new", "parse", "main"
    pc,         \* "call": about to run; "ret": returned; "panic": panicked; "exit"
    bits,       \* argument of FormatDesc::mask
    kind,       \* argument of ArbFloat::new
    num,        \* argument of ArbFloat::new
    desc,       \* argument of parse
    storage,    \* argument of parse
    ret,        \* the value returned by the call
    line,       \* main: number of println! calls made so far
    stdout      \* main: the values printed so far

vars == <<build, op, pc, bits, kind, num, desc, storage, ret, line, stdout>>

---------------------------------------------------------------------------
(* Bounds of the model                                                     *)

MaxFracBits == 2        \* small formats have frac_bits in 0..MaxFracBits
MaxExpBits  == 3        \* small formats have exp_bits in 1..MaxExpBits
MaxNum      == 8        \* ArbFloat::new is called with |num| <= MaxNum
MaxMaskBits == 65       \* FormatDesc::mask is called with bits in 0..MaxMaskBits

---------------------------------------------------------------------------
(* Machine integers                                                        *)

U64_BITS == 64
I32_BITS == 32
I32_MAX  == 2147483647
I32_MIN  == (-2147483647) - 1
U8_MAX   == 255

R(v, ovf) == [v |-> v, ovf |-> ovf]

RECURSIVE Pow2(_)
Pow2(n) == IF n <= 0 THEN 1 ELSE 2 * Pow2(n - 1)

\* i32 + i32
AddI32(a, b) ==
    IF b >= 0 /\ a > I32_MAX - b
    THEN R(((a - I32_MAX) - 1) + (b + I32_MIN), TRUE)
    ELSE IF b < 0 /\ a < I32_MIN - b
    THEN R((a - I32_MIN) + ((b + I32_MAX) + 1), TRUE)
    ELSE R(a + b, FALSE)

\* i32 - i32
SubI32(a, b) ==
    IF b > 0 /\ a < I32_MIN + b
    THEN R(((a - I32_MIN) + (I32_MAX - b)) + 1, TRUE)
    ELSE IF b < 0 /\ a > I32_MAX + b
    THEN R(((a - I32_MAX) + (I32_MIN - b)) - 1, TRUE)
    ELSE R(a - b, FALSE)

\* i32 << n: the shift count is taken modulo the width when unchecked
ShlI32One(n) ==
    LET s == n % I32_BITS
    IN  R(IF s = I32_BITS - 1 THEN I32_MIN ELSE Pow2(s), n >= I32_BITS)

\* u8 - u8
SubU8(a, b) == IF a < b THEN R((a - b) + U8_MAX + 1, TRUE) ELSE R(a - b, FALSE)

U64_MAX == [i \in 1..U64_BITS |-> 1]

\* the u64 whose set bits are the positions in S (bit 0 is the least significant)
U64FromBits(S) == [i \in 1..U64_BITS |-> IF (i - 1) \in S THEN 1 ELSE 0]

\* the u64 holding n, 0 <= n <= I32_MAX
U64FromNat(n) ==
    [i \in 1..U64_BITS |-> IF i < I32_BITS THEN (n \div Pow2(i - 1)) % 2 ELSE 0]

\* u64 >> n
ShrU64(x, n) ==
    LET s == n % U64_BITS
    IN  R([i \in 1..U64_BITS |-> IF i + s <= U64_BITS THEN x[i + s] ELSE 0],
          n >= U64_BITS)

\* u64 << n
ShlU64(x, n) ==
    LET s == n % U64_BITS
    IN  R([i \in 1..U64_BITS |-> IF i - s >= 1 THEN x[i - s] ELSE 0],
          n >= U64_BITS)

AndU64(x, y) == [i \in 1..U64_BITS |-> IF x[i] = 1 /\ y[i] = 1 THEN 1 ELSE 0]

OrU64(x, y) == [i \in 1..U64_BITS |-> IF x[i] = 1 \/ y[i] = 1 THEN 1 ELSE 0]

\* the value of bits 0..n-1 of x, n <= 31
RECURSIVE LowBits(_, _)
LowBits(x, n) == IF n = 0 THEN 0 ELSE x[n] * Pow2(n - 1) + LowBits(x, n - 1)

\* u64 as i32: the low 32 bits, in two's complement
AsI32(x) ==
    IF x[I32_BITS] = 1
    THEN (LowBits(x, I32_BITS - 1) - I32_MAX) - 1
    ELSE LowBits(x, I32_BITS - 1)

---------------------------------------------------------------------------
(* num_bigint::BigInt                                                      *)

\* a bit sequence without its leading (most significant) zero bits
RECURSIVE StripZeros(_)
StripZeros(m) ==
    IF m = <<>> THEN <<>>
    ELSE IF m[Len(m)] = 1 THEN m
    ELSE StripZeros(SubSeq(m, 1, Len(m) - 1))

\* the bits of the natural number n
RECURSIVE NatBits(_)
NatBits(n) == IF n = 0 THEN <<>> ELSE <<n % 2>> \o NatBits(n \div 2)

\* binary addition of two magnitudes with a carry
RECURSIVE AddBits(_, _, _)
AddBits(a, b, c) ==
    IF a = <<>> /\ b = <<>> THEN (IF c = 1 THEN <<1>> ELSE <<>>)
    ELSE LET x == IF a = <<>> THEN 0 ELSE Head(a)
             y == IF b = <<>> THEN 0 ELSE Head(b)
             t == x + y + c
         IN  <<t % 2>> \o AddBits(IF a = <<>> THEN <<>> ELSE Tail(a),
                                  IF b = <<>> THEN <<>> ELSE Tail(b),
                                  t \div 2)

\* binary multiplication of two magnitudes
RECURSIVE MulBits(_, _)
MulBits(a, b) ==
    IF a = <<>> \/ b = <<>> THEN <<>>
    ELSE LET rest == MulBits(Tail(a), b)
             twice == IF rest = <<>> THEN <<>> ELSE <<0>> \o rest
         IN  IF Head(a) = 1 THEN AddBits(b, twice, 0) ELSE twice

\* BigInt::from(n) for an i32 n > I32_MIN
BigIntFrom(n) ==
    [sign |-> IF n < 0 THEN -1 ELSE IF n = 0 THEN 0 ELSE 1,
     mag  |-> NatBits(IF n < 0 THEN -n ELSE n)]

\* BigInt *= u64
MulBigIntU64(a, x) ==
    LET m == MulBits(a.mag, StripZeros(x))
    IN  [sign |-> IF m = <<>> THEN 0 ELSE a.sign, mag |-> m]

\* the number of low zero bits of a nonzero magnitude
RECURSIVE CountLowZeros(_)
CountLowZeros(m) == IF Head(m) = 1 THEN 0 ELSE 1 + CountLowZeros(Tail(m))

\* BigInt::trailing_zeros(): None for zero
trailing_zeros(a) ==
    IF a.mag = <<>> THEN [some |-> FALSE, v |-> 0]
    ELSE [some |-> TRUE, v |-> CountLowZeros(a.mag)]

\* BigInt >>= i32: rounds towards negative infinity, panics on a negative count
ShrBigInt(a, n) ==
    IF n < 0 THEN [panic |-> TRUE, v |-> a]
    ELSE LET kept  == IF n >= Len(a.mag) THEN <<>>
                      ELSE SubSeq(a.mag, n + 1, Len(a.mag))
             lost  == \E i \in 1..Len(a.mag) : i <= n /\ a.mag[i] = 1
             m     == IF a.sign < 0 /\ lost THEN AddBits(kept, <<>>, 1) ELSE kept
         IN  [panic |-> FALSE,
              v |-> [sign |-> IF m = <<>> THEN 0 ELSE a.sign, mag |-> m]]

---------------------------------------------------------------------------
(* FloatKind, ArbFloat                                                     *)

Regular(exp) == [tag |-> "Regular", exp |-> exp]
Zero     == [tag |-> "Zero"]
Infinity == [tag |-> "Infinity"]
NaN      == [tag |-> "NaN"]

\* new without the normalization: kind and num are stored as given
new_unnormalized(k, n) ==
    [panic |-> FALSE, ovf |-> FALSE, v |-> [kind |-> k, num |-> n]]

\* new with num shifted and the exponent left as given
new_exp_unadjusted(k, n) ==
    IF k.tag = "Regular"
    THEN LET tz == trailing_zeros(n)
             shifted == ShrBigInt(n, AsI32(U64FromNat(tz.v)))
         IN  IF ~tz.some
             THEN [panic |-> TRUE, ovf |-> FALSE, v |-> [kind |-> k, num |-> n]]
             ELSE [panic |-> shifted.panic, ovf |-> FALSE,
                   v |-> [kind |-> k, num |-> shifted.v]]
    ELSE [panic |-> FALSE, ovf |-> FALSE, v |-> [kind |-> k, num |-> n]]

\* ArbFloat::new: [panic, ovf, v]; panic: Option::unwrap on None
new(k, n) ==
    IF k.tag = "Regular"
    THEN LET tz == trailing_zeros(n)
             adjustment == AsI32(U64FromNat(tz.v))
             exp == AddI32(k.exp, adjustment)
             shifted == ShrBigInt(n, adjustment)
         IN  IF ~tz.some
             THEN [panic |-> TRUE, ovf |-> FALSE, v |-> [kind |-> k, num |-> n]]
             ELSE [panic |-> shifted.panic, ovf |-> exp.ovf,
                   v |-> [kind |-> Regular(exp.v), num |-> shifted.v]]
    ELSE [panic |-> FALSE, ovf |-> FALSE, v |-> [kind |-> k, num |-> n]]

---------------------------------------------------------------------------
(* FormatDesc                                                              *)

FormatDesc(f, e) == [frac_bits |-> f, exp_bits |-> e]

BINARY32 == FormatDesc(23, 8)
BINARY64 == FormatDesc(52, 11)

\* precision without the implicit integer bit
precision_frac_only(d) == d.frac_bits

precision(d) == d.frac_bits + 1

\* IntStorage::MAX >> (IntStorage::BITS - bits), bits: u32
mask(b) ==
    LET count == U64_BITS - b
        sh == ShrU64(U64_MAX, count % U64_BITS)
    IN  R(sh.v, count < 0 \/ count >= U64_BITS)

frac_mask(d) == mask(d.frac_bits)

frac_shift(d) == 0

biased_exp_mask(d) == mask(d.exp_bits)

biased_exp_shift(d) == frac_shift(d) + d.frac_bits

exp_bias(d) ==
    LET n == SubU8(d.exp_bits, 1)
        p == ShlI32One(n.v)
        b == SubI32(p.v, 1)
    IN  R(b.v, n.ovf \/ p.ovf \/ b.ovf)

sign_mask(d) == 1

\* sign_shift one position short: the top bit of the exponent field
sign_shift_short(d) == (biased_exp_shift(d) + d.exp_bits) - 1

sign_shift(d) == biased_exp_shift(d) + d.exp_bits

integer_bit(d) == ShlU64(U64FromNat(1), d.frac_bits)

---------------------------------------------------------------------------
(* parse                                                                   *)

U64_ZERO == U64FromBits({})

\* parse: [panic, ovf, v], as for new
parse(d, st) ==
    LET fmask == frac_mask(d)
        sh0 == ShrU64(st, frac_shift(d))
        frac == AndU64(sh0.v, fmask.v)
        emask == biased_exp_mask(d)
        sh1 == ShrU64(st, biased_exp_shift(d))
        biased_exp == AndU64(sh1.v, emask.v)
        sh2 == ShrU64(st, sign_shift(d))
        sign == AndU64(sh2.v, U64FromNat(sign_mask(d))) # U64_ZERO
        bias == exp_bias(d)
        sum == AddI32(bias.v, precision(d))
        sub == SubI32(sum.v, 1)
        exp == SubI32(AsI32(biased_exp), sub.v)
        one == BigIntFrom(IF sign THEN -1 ELSE 1)
        exp1 == AddI32(exp.v, 1)
        ibit == integer_bit(d)
        subnormal == biased_exp # emask.v /\ biased_exp = U64_ZERO /\ frac # U64_ZERO
        normal == biased_exp # emask.v /\ biased_exp # U64_ZERO
        k == IF biased_exp = emask.v
             THEN (IF frac = U64_ZERO THEN Infinity ELSE NaN)
             ELSE IF biased_exp = U64_ZERO
             THEN (IF frac = U64_ZERO THEN Zero ELSE Regular(exp1.v))
             ELSE Regular(exp.v)
        n == IF subnormal THEN MulBigIntU64(one, frac)
             ELSE IF normal THEN MulBigIntU64(one, OrU64(frac, ibit.v))
             ELSE one
        r == new(k, n)
    IN  [panic |-> r.panic,
         ovf |-> \/ fmask.ovf \/ sh0.ovf \/ emask.ovf \/ sh1.ovf \/ sh2.ovf
                 \/ bias.ovf \/ sum.ovf \/ sub.ovf \/ exp.ovf
                 \/ (subnormal /\ exp1.ovf)
                 \/ (normal /\ ibit.ovf)
                 \/ r.ovf,
         v |-> r.v]

---------------------------------------------------------------------------
(* Inputs                                                                  *)

\* the number of bits of a pattern of format d
Width(d) == d.frac_bits + d.exp_bits + 1

SmallFormats ==
    {FormatDesc(f, e) : f \in 0..MaxFracBits, e \in 1..MaxExpBits}

\* a format whose exponent field is as wide as an i32
WideFormats == {FormatDesc(1, 32)}

\* bits above the pattern that a caller may have left set
Junk(d) == {{}, {Width(d)}, {U64_BITS - 1}}

\* every pattern of a small format, under every choice of the bits above it
SmallRaws(d) ==
    {OrU64(U64FromNat(n), U64FromBits(j)) : n \in 0..(Pow2(Width(d)) - 1), j \in Junk(d)}

WideRaws(d) ==
    {U64FromBits(S) : S \in {{}, {0}, {1}, {0, 1}, {d.exp_bits}, {1, d.exp_bits},
                             1..d.exp_bits, 0..d.exp_bits, {Width(d) - 1}}}

Raws(d) == IF d \in SmallFormats THEN SmallRaws(d) ELSE WideRaws(d)

\* the calls of print_examples, in order
Examples ==
    << <<BINARY32, U64FromBits({31})>>,
       <<BINARY32, U64FromBits(23..30)>>,
       <<BINARY32, U64FromBits(22..30)>>,
       <<BINARY32, U64FromBits(23..29)>>,
       <<BINARY64, U64FromBits(52..61)>> >>

BINARY3 == FormatDesc(1, 1)

Binary3Count == 8

MaxNewExp == 2

NewExps == ((-MaxNewExp)..MaxNewExp) \cup {I32_MIN, I32_MAX - 1, I32_MAX}

NewKinds == {Regular(e) : e \in NewExps} \cup {Zero, Infinity, NaN}

NewNums == {BigIntFrom(n) : n \in (-MaxNum)..MaxNum}

Builds == {"debug", "release"}

---------------------------------------------------------------------------
(* The state machine                                                       *)

NoRet == <<>>

Idle ==
    /\ bits = 0
    /\ kind = Zero
    /\ num = BigIntFrom(0)
    /\ desc = BINARY32
    /\ storage = U64_ZERO

InitMask ==
    /\ op = "mask"
    /\ bits \in 0..MaxMaskBits
    /\ kind = Zero /\ num = BigIntFrom(0) /\ desc = BINARY32 /\ storage = U64_ZERO

InitNew ==
    /\ op = "new"
    /\ kind \in NewKinds
    /\ num \in NewNums
    /\ bits = 0 /\ desc = BINARY32 /\ storage = U64_ZERO

InitParse ==
    /\ op = "parse"
    /\ \/ desc \in SmallFormats \cup WideFormats /\ storage \in Raws(desc)
       \/ \E i \in 1..Len(Examples) : desc = Examples[i][1] /\ storage = Examples[i][2]
    /\ bits = 0 /\ kind = Zero /\ num = BigIntFrom(0)

InitMain ==
    /\ op = "main"
    /\ Idle

Init ==
    /\ build \in Builds
    /\ pc = "call"
    /\ ret = NoRet
    /\ line = 0
    /\ stdout = <<>>
    /\ (InitMask \/ InitNew \/ InitParse \/ InitMain)

\* a build with overflow checks panics where the arithmetic overflows
Panics(r) == r.panic \/ (build = "debug" /\ r.ovf)

CallMask ==
    /\ op = "mask" /\ pc = "call"
    /\ LET r == mask(bits)
       IN  IF build = "debug" /\ r.ovf
           THEN pc' = "panic" /\ ret' = ret
           ELSE pc' = "ret" /\ ret' = r.v
    /\ UNCHANGED <<build, op, bits, kind, num, desc, storage, line, stdout>>

CallNew ==
    /\ op = "new" /\ pc = "call"
    /\ LET r == new(kind, num)
       IN  IF Panics(r)
           THEN pc' = "panic" /\ ret' = ret
           ELSE pc' = "ret" /\ ret' = r.v
    /\ UNCHANGED <<build, op, bits, kind, num, desc, storage, line, stdout>>

CallParse ==
    /\ op = "parse" /\ pc = "call"
    /\ LET r == parse(desc, storage)
       IN  IF Panics(r)
           THEN pc' = "panic" /\ ret' = ret
           ELSE pc' = "ret" /\ ret' = r.v
    /\ UNCHANGED <<build, op, bits, kind, num, desc, storage, line, stdout>>

\* println!("{:?}", parse(d, st))
Println(d, st) ==
    LET r == parse(d, st)
    IN  /\ desc' = d
        /\ storage' = st
        /\ IF Panics(r)
           THEN pc' = "panic" /\ UNCHANGED <<ret, line, stdout>>
           ELSE /\ pc' = "ret"
                /\ ret' = r.v
                /\ line' = line + 1
                /\ stdout' = Append(stdout, <<r.v>>)

PrintExamples ==
    /\ op = "main" /\ pc \in {"call", "ret"}
    /\ line < Len(Examples)
    /\ Println(Examples[line + 1][1], Examples[line + 1][2])
    /\ UNCHANGED <<build, op, bits, kind, num>>

\* println!("")
PrintBlank ==
    /\ op = "main" /\ pc = "ret"
    /\ line = Len(Examples)
    /\ line' = line + 1
    /\ stdout' = Append(stdout, <<>>)
    /\ UNCHANGED <<build, op, pc, bits, kind, num, desc, storage, ret>>

PrintBinary3 ==
    /\ op = "main" /\ pc = "ret"
    /\ line > Len(Examples)
    /\ line - (Len(Examples) + 1) < Binary3Count
    /\ Println(BINARY3, U64FromNat(line - (Len(Examples) + 1)))
    /\ UNCHANGED <<build, op, bits, kind, num>>

Exit ==
    /\ op = "main" /\ pc = "ret"
    /\ line = Len(Examples) + 1 + Binary3Count
    /\ pc' = "exit"
    /\ UNCHANGED <<build, op, bits, kind, num, desc, storage, ret, line, stdout>>

Next ==
    \/ CallMask
    \/ CallNew
    \/ CallParse
    \/ PrintExamples
    \/ PrintBlank
    \/ PrintBinary3
    \/ Exit

Spec == Init /\ [][Next]_vars

---------------------------------------------------------------------------
(* What a bit pattern encodes, read off its bits                           *)

FracField(d, st) == SubSeq(st, 1, d.frac_bits)

ExpField(d, st) == SubSeq(st, d.frac_bits + 1, d.frac_bits + d.exp_bits)

SignSet(d, st) == st[Width(d)] = 1

AllOnes(s) == \A i \in 1..Len(s) : s[i] = 1

AllZeros(s) == \A i \in 1..Len(s) : s[i] = 0

IsNormal(d, st) == ~AllOnes(ExpField(d, st)) /\ ~AllZeros(ExpField(d, st))

IsSubnormal(d, st) == AllZeros(ExpField(d, st)) /\ ~AllZeros(FracField(d, st))

ExpectedTag(d, st) ==
    IF AllOnes(ExpField(d, st))
    THEN (IF AllZeros(FracField(d, st)) THEN "Infinity" ELSE "NaN")
    ELSE IF AllZeros(ExpField(d, st)) /\ AllZeros(FracField(d, st)) THEN "Zero"
    ELSE "Regular"

\* 2^n - 1
RECURSIVE Ones(_)
Ones(n) == IF n <= 0 THEN 0 ELSE 2 * Ones(n - 1) + 1

\* the value of a bit sequence of at most 31 bits
RECURSIVE BitsValue(_)
BitsValue(s) == IF s = <<>> THEN 0 ELSE Head(s) + 2 * BitsValue(Tail(s))

\* biased_exponent - exponent_bias, exponent_bias = 2^(E-1) - 1
Unbiased(d, st) ==
    LET f == ExpField(d, st)
        low == BitsValue(SubSeq(f, 1, Len(f) - 1))
    IN  IF f[Len(f)] = 1 THEN low + 1 ELSE low - Ones(d.exp_bits - 1)

\* magnitude and exponent of the value the pattern encodes
EncodedMag(d, st) ==
    IF IsNormal(d, st) THEN FracField(d, st) \o <<1>> ELSE StripZeros(FracField(d, st))

EncodedExp(d, st) ==
    IF IsNormal(d, st) THEN Unbiased(d, st) - d.frac_bits
    ELSE (1 - Ones(d.exp_bits - 1)) - d.frac_bits

RECURSIVE LowZeros(_)
LowZeros(m) == IF m = <<>> \/ Head(m) = 1 THEN 0 ELSE 1 + LowZeros(Tail(m))

OddPart(m) == SubSeq(m, LowZeros(m) + 1, Len(m))

\* m1 * 2^e1 = m2 * 2^e2, for nonzero magnitudes
SameValue(m1, e1, m2, e2) ==
    /\ OddPart(m1) = OddPart(m2)
    /\ e1 - e2 = LowZeros(m2) - LowZeros(m1)

ParseReturned == op \in {"parse", "main"} /\ pc = "ret"

ParseEnded == op \in {"parse", "main"} /\ pc \in {"ret", "panic"}

KindTags == {"Regular", "Zero", "Infinity", "NaN"}

---------------------------------------------------------------------------
(* Claims                                                                  *)

\* C1: whenever parse returns, the kind it returns is the one the pattern's
\* biased exponent and fraction fields select: all-ones exponent gives
\* Infinity (fraction zero) or NaN (fraction nonzero); zero exponent gives
\* Zero (fraction zero) or Regular (fraction nonzero); any other exponent
\* gives Regular.
C1_Classification ==
    ParseReturned => ret.kind.tag = ExpectedTag(desc, storage)

\* C2: whenever parse returns a Regular value, the pattern is a normal or a
\* subnormal one and significand * 2^exponent is the value it encodes:
\* (-1)^sign * (2^F + fraction) * 2^(biased_exponent - bias - F) for a normal
\* pattern, (-1)^sign * fraction * 2^(1 - bias - F) for a subnormal one.
C2_EncodedValue ==
    (ParseReturned /\ ret.kind.tag = "Regular") =>
        /\ IsNormal(desc, storage) \/ IsSubnormal(desc, storage)
        /\ ret.num.sign = (IF SignSet(desc, storage) THEN -1 ELSE 1)
        /\ SameValue(ret.num.mag, ret.kind.exp,
                     EncodedMag(desc, storage), EncodedExp(desc, storage))

\* C3: whenever parse returns a Regular value, its significand is zero or odd.
C3_Canonical ==
    (ParseReturned /\ ret.kind.tag = "Regular") =>
        (ret.num.mag = <<>> \/ ret.num.mag[1] = 1)

\* C3 witness: parse has returned a Regular value for a normal pattern whose
\* fraction is zero, so that the significand 2^F had F > 0 low zero bits.
C3_Witness ==
    /\ op = "parse" /\ pc = "ret"
    /\ ret.kind.tag = "Regular"
    /\ desc.frac_bits > 0
    /\ IsNormal(desc, storage)
    /\ AllZeros(FracField(desc, storage))
    /\ ret.num.mag = <<1>>

\* C4: whenever parse returns Zero, Infinity or NaN, the significand is
\* negative exactly when the pattern's sign bit (position F+E) is set.
C4_SignKept ==
    (ParseReturned /\ ret.kind.tag \in {"Zero", "Infinity", "NaN"}) =>
        (ret.num.sign < 0 <=> SignSet(desc, storage))

\* C4 witness: parse(BINARY32, 0x80000000) has returned Zero with a negative
\* significand.
C4_Witness ==
    /\ ParseReturned
    /\ desc = BINARY32 /\ storage = U64FromBits({31})
    /\ ret.kind.tag = "Zero"
    /\ ret.num.sign < 0

\* C5: parse never panics, and the value it returns has one of the four kinds.
C5_Total ==
    /\ op \in {"parse", "main"} => pc # "panic"
    /\ ParseReturned => ret.kind.tag \in KindTags

\* C6: for 0 <= n < 64, mask(n) returns 2^n - 1: the n low bits set.
C6_Mask ==
    (op = "mask" /\ pc \in {"ret", "panic"} /\ bits < U64_BITS) =>
        (pc = "ret" /\ ret = U64FromBits(0..(bits - 1)))

\* C7: parse(BINARY32, 0x3F800000) and parse(BINARY64, 0x3FF0000000000000)
\* return Regular{exp: 0} with significand 1.
C7_One ==
    (/\ ParseEnded
     /\ \/ desc = BINARY32 /\ storage = U64FromBits(23..29)
        \/ desc = BINARY64 /\ storage = U64FromBits(52..61)) =>
        (pc = "ret" /\ ret = [kind |-> Regular(0), num |-> BigIntFrom(1)])

\* C7 witness: main has printed both decodings of +1.0, lines 4 and 5.
C7_Witness ==
    /\ op = "main"
    /\ line >= Len(Examples)
    /\ stdout[4] = <<[kind |-> Regular(0), num |-> BigIntFrom(1)]>>
    /\ stdout[5] = <<[kind |-> Regular(0), num |-> BigIntFrom(1)]>>

\* t low zero bits prefixed to a magnitude: the magnitude times 2^t
TimesPow2(m, t) == [i \in 1..t |-> 0] \o m

\* new(Regular{exp}, num) has returned Regular{exp + t} and num / 2^t,
\* t the number of trailing zero bits of num
ValueKept(t) ==
    /\ pc = "ret"
    /\ ret.kind.tag = "Regular"
    /\ kind.exp <= I32_MAX - t
    /\ ret.kind.exp = kind.exp + t
    /\ ret.num.sign = num.sign
    /\ TimesPow2(ret.num.mag, t) = num.mag
    /\ ret.num.mag[1] = 1

NewRegularNonzero ==
    /\ op = "new" /\ pc \in {"ret", "panic"}
    /\ kind.tag = "Regular"
    /\ num.sign # 0

C9_ZeroHandled ==
    (op = "new" /\ pc \in {"ret", "panic"} /\ kind.tag = "Regular" /\ num.sign = 0) =>
        (pc = "ret" /\ ret.kind.tag = "Regular" /\ ret.num.sign = 0)

\* what a call of parse ends with
Outcome(d, st) ==
    LET r == parse(d, st)
    IN  IF Panics(r) THEN [status |-> "panic", v |-> NoRet]
        ELSE [status |-> "ok", v |-> r.v]

\* C10: for a format with F+E+1 < 64, parse gives the same result for every
\* raw value that agrees with this one on bit positions 0..F+E.
C10_HighBitsIgnored ==
    (op = "parse" /\ pc \in {"ret", "panic"} /\ desc \in SmallFormats) =>
        \A st \in Raws(desc) :
            (\A i \in 1..Width(desc) : st[i] = storage[i]) =>
                Outcome(desc, st).status = (IF pc = "ret" THEN "ok" ELSE "panic")
                /\ (pc = "ret" => Outcome(desc, st).v = ret)

=============================================================================
